---- MODULE Spec2Model ----
(***************************************************************************)
(* Model of the cloud-debug-eval pipeline (src/src/evaluator.py):          *)
(* LLMJudge.evaluate_solution / _parse_judge_response, the batch loop of   *)
(* CloudDebugEvaluator.evaluate_all_problems / evaluate_with_agent, the    *)
(* top-level evaluate() and CloudDebugEvaluator.generate_report.           *)
(*                                                                         *)
(* Python values are tagged records.  A str is a sequence of tokens; the   *)
(* tokens of an oracle reply are the two braces, a prose character, and    *)
(* one token per JSON member ("key": value) of the embedded payload.       *)
(* Exceptions are values: an operator that can raise yields Raise(class),  *)
(* one that returns yields Return(value).                                  *)
(***************************************************************************)
EXTENDS Integers, Sequences, FiniteSets, TLC

(* ------------------------------ bounds -------------------------------- *)
\* longest prose/brace padding put before and after a payload in a reply
MaxPad == 2
\* most entries in the problems directory listing
MaxEntries == 3
\* last clock second of a report-generation run
MaxClock == 2
\* most generate_report calls in a report-generation run
MaxReports == 3

(* --------------------------- Python values ---------------------------- *)
Ch(c) == [c |-> c]
LB == Ch("{")
RB == Ch("}")
Prose == Ch("x")
Member(k, v) == [c |-> "member", key |-> k, val |-> v]

PyStr(s) == [t |-> "str", s |-> s]
PyInt(n) == [t |-> "int", n |-> n]
\* a finite float whose value is halves/2 (exactly representable as a double)
PyFloat(h) == [t |-> "float", halves |-> h]
PyInf == [t |-> "float_inf"]
PyNaN == [t |-> "float_nan"]
PyNone == [t |-> "none"]

Raise(e) == [raised |-> TRUE, exc |-> e]
Return(v) == [raised |-> FALSE, value |-> v]

\* the exception classes the judge code can meet; all derive from Exception
ExceptionSubclasses ==
    {"APIError", "IndexError", "AttributeError", "ValueError",
     "JSONDecodeError", "TypeError", "OverflowError"}

(* ----------------- IEEE-754 double arithmetic of line 234 -------------- *)
(* A double x is held as [T, E] with x = T/10 + E*w, w = 2^-64 / 5: T is   *)
(* the decimal (tenths) part a reader computes by hand and E the binary    *)
(* representation error.  double(0.4) = 0.4 + 2048w, double(0.2) = 0.2 +   *)
(* 1024w.  Round is round-to-nearest-even onto the 53-bit grid of x's      *)
(* binade, whose spacing is 2^(k-52) = 5 * 2^(k+12) * w.                   *)
Exponents == (0 - 12) .. 8

Pow2Mod5(n) == <<1, 2, 4, 3>>[(n % 4) + 1]

AtLeastPow2(T, c) == IF c >= 0 THEN 10 * (2 ^ c) <= T ELSE 10 <= T * (2 ^ (0 - c))
IsPow2(T, c) == IF c >= 0 THEN 10 * (2 ^ c) = T ELSE 10 = T * (2 ^ (0 - c))

\* the exponent k with 2^k <= x < 2^(k+1), for x = T/10 + E*w > 0
BinadeOf(T, E, k) == IF IsPow2(T, k) /\ E < 0 THEN k - 1 ELSE k

Binade(T, E) ==
    BinadeOf(T, E, CHOOSE c \in Exponents :
                       /\ AtLeastPow2(T, c)
                       /\ \A c2 \in Exponents : AtLeastPow2(T, c2) => c2 <= c)

\* G: grid spacing; r: x mod G; r2: x mod 2G (tells the parity of the lower
\* grid point for round-half-to-even)
RoundGrid(T, E, G, r, r2) ==
    IF 2 * r < G THEN [T |-> T, E |-> E - r]
    ELSE IF 2 * r > G THEN [T |-> T, E |-> E - r + G]
    ELSE IF r2 < G THEN [T |-> T, E |-> E - r]
    ELSE [T |-> T, E |-> E - r + G]

RoundBinade(T, E, k) ==
    RoundGrid(T, E, 5 * (2 ^ (k + 12)),
              ((2 ^ (k + 12)) * ((T * Pow2Mod5(51 - k)) % 5) + E) % (5 * (2 ^ (k + 12))),
              ((2 ^ (k + 13)) * ((T * Pow2Mod5(50 - k)) % 5) + E) % (5 * (2 ^ (k + 13))))

RoundPos(T, E) == RoundBinade(T, E, Binade(T, E))

Abs(n) == IF n < 0 THEN 0 - n ELSE n
Sign(n) == IF n < 0 THEN 0 - 1 ELSE IF n > 0 THEN 1 ELSE 0
Signed(sgn, x) == [T |-> sgn * x.T, E |-> sgn * x.E]

Round(T, E) ==
    IF T = 0 THEN [T |-> 0, E |-> E]
    ELSE Signed(Sign(T), RoundPos(Abs(T), Sign(T) * E))

\* x * 0.4 and x * 0.2 for x = h/2
MulPoint4(h) == Round(2 * h, 1024 * h)
MulPoint2(h) == Round(h, 512 * h)
FAdd(a, b) == Round(a.T + b.T, a.E + b.E)

\* int(x) of a finite double: truncation toward zero
FloatToInt(x) ==
    IF x.T = 0 THEN 0
    ELSE LET N == Abs(x.T) \div 10
         IN  IF Abs(x.T) % 10 = 0 /\ x.E * Sign(x.T) < 0
             THEN Sign(x.T) * (N - 1)
             ELSE Sign(x.T) * N

IsNumber(v) == v.t \in {"int", "float", "float_inf", "float_nan"}
Halves(v) == IF v.t = "int" THEN 2 * v.n ELSE v.halves

\* int(v) of a finite number
PyIntOf(v) == IF v.t = "int" THEN v.n ELSE Sign(v.halves) * (Abs(v.halves) \div 2)

\* int(diagnosis * 0.4 + solution * 0.4 + investigation * 0.2)
WeightedOverall(diagnosis, solution, investigation) ==
    IF ~(IsNumber(diagnosis) /\ IsNumber(solution) /\ IsNumber(investigation))
    THEN Raise("TypeError")
    ELSE IF \E v \in {diagnosis, solution, investigation} : v.t = "float_nan"
    THEN Raise("ValueError")
    ELSE IF \E v \in {diagnosis, solution, investigation} : v.t = "float_inf"
    THEN Raise("OverflowError")
    ELSE Return(FloatToInt(FAdd(FAdd(MulPoint4(Halves(diagnosis)),
                                     MulPoint4(Halves(solution))),
                                MulPoint2(Halves(investigation)))))

(* ------------------------- str and json helpers ------------------------ *)
\* str.find / str.rfind: 0-based index of the first / last occurrence, or -1
find(s, c) ==
    IF \E i \in 1..Len(s) : s[i] = c
    THEN (CHOOSE i \in 1..Len(s) : s[i] = c /\ \A j \in 1..(i - 1) : s[j] # c) - 1
    ELSE 0 - 1

rfind(s, c) ==
    IF \E i \in 1..Len(s) : s[i] = c
    THEN (CHOOSE i \in 1..Len(s) : s[i] = c /\ \A j \in (i + 1)..Len(s) : s[j] # c) - 1
    ELSE 0 - 1

\* variant: the slice stops one short (end index without the + 1)
Slice_ExclusiveEnd(s, a, b) == SubSeq(s, a + 1, b - 1)

\* s[a:b] with Python's index normalisation
Slice(s, a, b) ==
    LET n == Len(s)
        lo == IF a < 0 THEN (IF a + n < 0 THEN 0 ELSE a + n) ELSE (IF a > n THEN n ELSE a)
        hi == IF b < 0 THEN (IF b + n < 0 THEN 0 ELSE b + n) ELSE (IF b > n THEN n ELSE b)
    IN  SubSeq(s, lo + 1, hi)

\* json.loads: the text must be one object, '{' members '}'; a repeated key
\* keeps its last value
json_loads(text) ==
    IF /\ Len(text) >= 2
       /\ text[1] = LB
       /\ text[Len(text)] = RB
       /\ \A i \in 2..(Len(text) - 1) : text[i].c = "member"
    THEN LET inner == 2..(Len(text) - 1)
             keys == {text[i].key : i \in inner}
             last(k) == CHOOSE i \in inner :
                            text[i].key = k /\ \A j \in inner : text[j].key = k => j <= i
         IN  Return([k \in keys |-> text[last(k)].val])
    ELSE Raise("JSONDecodeError")

dict_get(d, k, default) == IF k \in DOMAIN d THEN d[k] ELSE default

(* ------------------------------ LLMJudge ------------------------------- *)
JudgeModel == "gpt-4"

EvaluationResult(problem, agent_name, d, s, i, overall, agent_solution, feedback, reasoning) ==
    [problem_name |-> problem.name,
     agent_name |-> agent_name,
     diagnosis_accuracy |-> d,
     solution_correctness |-> s,
     investigation_quality |-> i,
     overall_score |-> overall,
     agent_solution |-> agent_solution,
     expected_solution |-> problem.solution_md,
     judge_feedback |-> feedback,
     judge_reasoning |-> reasoning,
     judge_model |-> JudgeModel]

\* lines 236-249: the result of a parsed reply
ParseResult(problem, agent_solution, agent_name, diagnosis, solution, investigation, reasoning, feedback, overall) ==
    IF overall.raised THEN overall
    ELSE Return(EvaluationResult(problem, agent_name,
                    PyIntOf(diagnosis), PyIntOf(solution), PyIntOf(investigation),
                    overall.value, agent_solution, feedback, reasoning))

\* lines 227-234: the five fields and the overall score
ParseData(problem, agent_solution, agent_name, diagnosis, solution, investigation, reasoning, feedback) ==
    ParseResult(problem, agent_solution, agent_name, diagnosis, solution, investigation,
                reasoning, feedback, WeightedOverall(diagnosis, solution, investigation))

\* lines 225-231: json.loads and the .get calls with their defaults
ParseLoaded(problem, agent_solution, agent_name, loaded) ==
    IF loaded.raised THEN loaded
    ELSE ParseData(problem, agent_solution, agent_name,
             dict_get(loaded.value, "diagnosis_accuracy", PyInt(0)),
             dict_get(loaded.value, "solution_correctness", PyInt(0)),
             dict_get(loaded.value, "investigation_quality", PyInt(0)),
             dict_get(loaded.value, "reasoning", PyStr(<<Ch("No reasoning provided")>>)),
             dict_get(loaded.value, "feedback", PyStr(<<Ch("No feedback provided")>>)))

\* lines 223-251: the test on the two indexes, the slice and the else branch
ParseSpan(problem, agent_solution, agent_name, judge_response, start_idx, end_idx) ==
    IF start_idx # 0 - 1 /\ end_idx # 0 - 1
    THEN ParseLoaded(problem, agent_solution, agent_name,
                     json_loads(Slice(judge_response.s, start_idx, end_idx)))
    ELSE Raise("ValueError")

\* the try block of _parse_judge_response (None has no find)
ParseTry(problem, agent_solution, agent_name, judge_response) ==
    IF judge_response.t # "str" THEN Raise("AttributeError")
    ELSE ParseSpan(problem, agent_solution, agent_name, judge_response,
                   find(judge_response.s, LB), rfind(judge_response.s, RB) + 1)

\* except Exception of _parse_judge_response
ParseCatches(exc) == exc \in ExceptionSubclasses

\* variant: the fallback leaves the reasoning empty instead of keeping the reply
ParseExcept_EmptyReasoning(problem, agent_solution, agent_name, judge_response, body) ==
    IF body.raised /\ ParseCatches(body.exc)
    THEN Return(EvaluationResult(problem, agent_name, 50, 50, 50, 50, agent_solution,
                    PyStr(<<Ch("Failed to parse judge response: "), Ch(body.exc)>>),
                    PyStr(<<>>)))
    ELSE body

\* lines 253-268: the fallback result, for the outcome body of the try block
ParseExcept(problem, agent_solution, agent_name, judge_response, body) ==
    IF body.raised /\ ParseCatches(body.exc)
    THEN Return(EvaluationResult(problem, agent_name, 50, 50, 50, 50, agent_solution,
                    PyStr(<<Ch("Failed to parse judge response: "), Ch(body.exc)>>),
                    judge_response))
    ELSE body

_parse_judge_response(problem, agent_solution, agent_name, judge_response) ==
    ParseExcept(problem, agent_solution, agent_name, judge_response,
                ParseTry(problem, agent_solution, agent_name, judge_response))

\* oracle outcomes: the call raises, or it returns a response with choices
APIRaise == [kind |-> "raise"]
Response(choices) == [kind |-> "response", choices |-> choices]

\* the try block of evaluate_solution
EvaluateTry(problem, agent_solution, agent_name, oracle) ==
    IF oracle.kind = "raise" THEN Raise("APIError")
    ELSE IF Len(oracle.choices) = 0 THEN Raise("IndexError")
    ELSE _parse_judge_response(problem, agent_solution, agent_name, oracle.choices[1])

\* variant: the handler names the client's error class only
EvaluateCatches_OnlyAPIError(exc) == exc = "APIError"

\* except Exception of evaluate_solution
EvaluateCatches(exc) == exc \in ExceptionSubclasses

\* variant: the handler builds the neutral 50 result of the parse fallback
EvaluateExcept_Neutral(problem, agent_solution, agent_name, body) ==
    IF body.raised /\ EvaluateCatches(body.exc)
    THEN Return(EvaluationResult(problem, agent_name, 50, 50, 50, 50, agent_solution,
                    PyStr(<<Ch("Error during evaluation: "), Ch(body.exc)>>),
                    PyStr(<<>>)))
    ELSE body

\* lines 138-152: the zero result, for the outcome body of the try block
EvaluateExcept(problem, agent_solution, agent_name, body) ==
    IF body.raised /\ EvaluateCatches(body.exc)
    THEN Return(EvaluationResult(problem, agent_name, 0, 0, 0, 0, agent_solution,
                    PyStr(<<Ch("Error during evaluation: "), Ch(body.exc)>>),
                    PyStr(<<>>)))
    ELSE body

evaluate_solution(problem, agent_solution, agent_name, oracle) ==
    EvaluateExcept(problem, agent_solution, agent_name,
                   EvaluateTry(problem, agent_solution, agent_name, oracle))

(* ------------------------- fixtures and Problem ------------------------ *)
NameTok(n) == [c |-> "name", n |-> n]

\* one entry of problems/ : a plain file, or a directory with or without
\* problem.md and solution.md
EntryKinds ==
    {[is_dir |-> FALSE, has_problem_md |-> FALSE, has_solution_md |-> FALSE],
     [is_dir |-> TRUE, has_problem_md |-> FALSE, has_solution_md |-> TRUE],
     [is_dir |-> TRUE, has_problem_md |-> TRUE, has_solution_md |-> FALSE],
     [is_dir |-> TRUE, has_problem_md |-> TRUE, has_solution_md |-> TRUE]}

\* directory listings: entry i is named i (names in a directory are unique)
Listings == UNION {[1..n -> EntryKinds] : n \in 0..MaxEntries}

\* Problem.load: reads problem.md and solution.md (logs and configs, which
\* only feed the agent prompt, are left out)
Problem_load(entries, i) ==
    IF ~entries[i].has_problem_md \/ ~entries[i].has_solution_md
    THEN Raise("FileNotFoundError")
    ELSE Return([name |-> i,
                 problem_md |-> PyStr(<<Ch("problem.md of "), NameTok(i)>>),
                 solution_md |-> PyStr(<<Ch("solution.md of "), NameTok(i)>>)])

NoProblem == [name |-> 0, problem_md |-> PyNone, solution_md |-> PyNone]

(* ------------------------------- inputs -------------------------------- *)
AgentNames == {<<Ch("a")>>, <<Ch("b")>>}
\* what the agent callback returns for the fixture named i
AgentSolutions(i) == {PyStr(<<Ch("fix for "), NameTok(i)>>)}

SeqsUpTo(S, n) == UNION {[1..m -> S] : m \in 0..n}
Pads == SeqsUpTo({LB, RB, Prose}, MaxPad)

Absent == [t |-> "absent"]
ScoreValues ==
    {Absent, PyInt(0 - 1), PyInt(1), PyInt(2), PyInt(43), PyInt(80), PyInt(150),
     PyFloat(5), PyStr(<<Ch("high")>>), PyNone, PyInf, PyNaN}
ReasoningValues == {Absent, PyStr(<<Ch("ok")>>)}
FeedbackValues == {Absent, PyStr(<<Ch("fine")>>), PyInt(3)}

OptMember(k, v) == IF v = Absent THEN <<>> ELSE <<Member(k, v)>>
Body(d, s, i, r, f) ==
    OptMember("diagnosis_accuracy", d) \o OptMember("solution_correctness", s)
    \o OptMember("investigation_quality", i) \o OptMember("reasoning", r)
    \o OptMember("feedback", f)

Bodies ==
    {Body(d, s, i, r, f) : d \in ScoreValues, s \in ScoreValues, i \in ScoreValues,
                           r \in ReasoningValues, f \in FeedbackValues}

GoodBody == Body(PyInt(80), PyInt(70), PyInt(90), PyStr(<<Ch("ok")>>), PyStr(<<Ch("fine")>>))
FewBodies ==
    {<<>>, GoodBody,
     \* a repeated key
     <<Member("diagnosis_accuracy", PyInt(10))>> \o GoodBody,
     \* prose inside the braces
     <<Prose>> \o GoodBody,
     Body(PyStr(<<Ch("high")>>), PyInt(70), PyInt(90), Absent, Absent)}

Replies ==
    {pre \o b \o post : pre \in Pads, post \in Pads, b \in FewBodies}
    \cup {<<LB>> \o b \o <<RB>> : b \in Bodies}

JudgeOutcomes ==
    {APIRaise, Response(<<>>), Response(<<PyNone>>)}
    \cup {Response(<<PyStr(r)>>) : r \in Replies}

BatchOutcomes ==
    {APIRaise,
     Response(<<PyStr(<<Ch("not json at all")>>)>>),
     Response(<<PyStr(<<Prose, LB>> \o GoodBody \o <<RB, Prose>>)>>),
     Response(<<PyStr(<<LB>> \o Body(PyInt(150), PyInt(1), PyFloat(5), Absent, Absent)
                             \o <<RB>>)>>)}

(* -------------------------------- state -------------------------------- *)
VARIABLES
    entries,      \* listing of the problems directory
    agent_name,   \* agent name given to evaluate()
    pc,           \* "loop", "agent" (agent call in flight), "judge" (judge
                  \* call in flight), "done", "raised", "reports"
    idx,          \* position of the batch loop in the listing
    problem,      \* Problem of the fixture in progress
    agent_solution, \* text the agent returned for the fixture in progress
    results,      \* the local list of evaluate_all_problems
    returned,     \* <<>> until evaluate_all_problems returns, then <<results>>
    raised,       \* exception that left evaluate(), "" if none
    inflight,     \* external calls in flight
    trace,        \* history of external call events
    oracle_log,   \* history of oracle outcomes, one per judge call returned
    clock,        \* wall clock, in seconds
    files,        \* reports directory: path -> content
    report_log    \* history of generate_report calls

vars == <<entries, agent_name, pc, idx, problem, agent_solution, results, returned,
          raised, inflight, trace, oracle_log, clock, files, report_log>>

Call(kind, name) == [kind |-> kind, name |-> name]
Event(ev, kind, name) == [ev |-> ev, kind |-> kind, name |-> name]

(* --------------------------- Report Generator -------------------------- *)
SecondsPerMinute == 60

\* variant: the format stops at the minute ("%Y%m%d_%H%M")
strftime_MinuteResolution(now) ==
    <<Ch("YYYYmmdd_HH"), [c |-> "MM", n |-> now \div SecondsPerMinute]>>

\* datetime.now().strftime("%Y%m%d_%H%M%S"): fixed-width fields; the clock
\* stays within one hour of one day
strftime(now) ==
    <<Ch("YYYYmmdd_HH"), [c |-> "MM", n |-> now \div SecondsPerMinute],
      [c |-> "SS", n |-> now % SecondsPerMinute]>>

RECURSIVE SumOverall(_)
SumOverall(rs) == IF rs = <<>> THEN 0 ELSE rs[1].overall_score + SumOverall(Tail(rs))

\* _generate_md_report: header, one summary row and one detail block per
\* result (the average is kept as the pair sum, count)
_generate_md_report(rs) ==
    IF rs = <<>> THEN [title |-> "# No results to report"]
    ELSE [title |-> "# Cloud Debug Eval Report",
          agent |-> rs[1].agent_name,
          count |-> Len(rs),
          sum |-> SumOverall(rs),
          rows |-> [j \in 1..Len(rs) |->
                      <<rs[j].problem_name, rs[j].overall_score, rs[j].diagnosis_accuracy,
                        rs[j].solution_correctness, rs[j].investigation_quality>>],
          details |-> [j \in 1..Len(rs) |->
                      <<rs[j].problem_name, rs[j].judge_feedback, rs[j].judge_reasoning>>]]

ReportAgent(rs) == IF rs # <<>> THEN rs[1].agent_name ELSE <<Ch("unknown")>>

md_path(rs, now) ==
    <<Ch("reports/eval_report_")>> \o ReportAgent(rs) \o <<Ch("_")>> \o strftime(now)
    \o <<Ch(".md")>>

\* generate_report: open(md_path, "w") replaces whatever the path held
generate_report(rs) ==
    /\ files' = [p \in DOMAIN files \cup {md_path(rs, clock)} |->
                    IF p = md_path(rs, clock) THEN _generate_md_report(rs) ELSE files[p]]
    /\ report_log' = Append(report_log,
                        [agent |-> ReportAgent(rs), second |-> clock,
                         path |-> md_path(rs, clock),
                         content |-> _generate_md_report(rs)])

(* ------------------------ Evaluation Orchestrator ---------------------- *)
IsFixture(e) == e.is_dir /\ e.has_problem_md

Init ==
    /\ entries \in Listings
    /\ agent_name \in AgentNames
    /\ pc = "loop"
    /\ idx = 1
    /\ problem = NoProblem
    /\ agent_solution = PyNone
    /\ results = <<>>
    /\ returned = <<>>
    /\ raised = ""
    /\ inflight = {}
    /\ trace = <<>>
    /\ oracle_log = <<>>
    /\ clock = 0
    /\ files = <<>>
    /\ report_log = <<>>

\* variant: the loop stops at the first entry that is not a fixture
SkipEntry_Break ==
    /\ pc = "loop"
    /\ idx <= Len(entries)
    /\ ~IsFixture(entries[idx])
    /\ idx' = Len(entries) + 1
    /\ UNCHANGED <<entries, agent_name, pc, problem, agent_solution, results, returned,
                   raised, inflight, trace, oracle_log, clock, files, report_log>>

\* the loop meets an entry that is not a directory with problem.md
SkipEntry ==
    /\ pc = "loop"
    /\ idx <= Len(entries)
    /\ ~IsFixture(entries[idx])
    /\ idx' = idx + 1
    /\ UNCHANGED <<entries, agent_name, pc, problem, agent_solution, results, returned,
                   raised, inflight, trace, oracle_log, clock, files, report_log>>

\* evaluate_with_agent: Problem.load raises, which leaves evaluate()
LoadFails ==
    /\ pc = "loop"
    /\ idx <= Len(entries)
    /\ IsFixture(entries[idx])
    /\ Problem_load(entries, idx).raised
    /\ pc' = "raised"
    /\ raised' = Problem_load(entries, idx).exc
    /\ UNCHANGED <<entries, agent_name, idx, problem, agent_solution, results, returned,
                   inflight, trace, oracle_log, clock, files, report_log>>

\* evaluate_with_agent up to the blocking agent_function call
CallAgent ==
    /\ pc = "loop"
    /\ idx <= Len(entries)
    /\ IsFixture(entries[idx])
    /\ ~Problem_load(entries, idx).raised
    /\ problem' = Problem_load(entries, idx).value
    /\ pc' = "agent"
    /\ inflight' = inflight \cup {Call("agent", idx)}
    /\ trace' = Append(trace, Event("start", "agent", idx))
    /\ UNCHANGED <<entries, agent_name, idx, agent_solution, results, returned, raised,
                   oracle_log, clock, files, report_log>>

\* the agent returns; evaluate_solution builds the prompt and calls the oracle
StartJudge(sol) ==
    /\ agent_solution' = sol
    /\ pc' = "judge"
    /\ inflight' = (inflight \ {Call("agent", problem.name)}) \cup {Call("judge", problem.name)}
    /\ trace' = trace \o <<Event("return", "agent", problem.name),
                           Event("start", "judge", problem.name)>>

AgentReturns ==
    /\ pc = "agent"
    /\ \E sol \in AgentSolutions(problem.name) : StartJudge(sol)
    /\ UNCHANGED <<entries, agent_name, idx, problem, results, returned, raised,
                   oracle_log, clock, files, report_log>>

\* variant: the loop catches the agent's exception and goes on
AgentRaises_Swallowed ==
    /\ pc = "agent"
    /\ pc' = "loop"
    /\ idx' = idx + 1
    /\ inflight' = inflight \ {Call("agent", problem.name)}
    /\ trace' = Append(trace, Event("raise", "agent", problem.name))
    /\ UNCHANGED <<entries, agent_name, problem, agent_solution, results, returned,
                   raised, oracle_log, clock, files, report_log>>

\* the agent raises: nothing catches it up to the caller of evaluate()
AgentRaises ==
    /\ pc = "agent"
    /\ pc' = "raised"
    /\ raised' = "AgentError"
    /\ inflight' = inflight \ {Call("agent", problem.name)}
    /\ trace' = Append(trace, Event("raise", "agent", problem.name))
    /\ UNCHANGED <<entries, agent_name, idx, problem, agent_solution, results, returned,
                   oracle_log, clock, files, report_log>>

\* variant: the new result is put at the front of the list
AppendResult_Prepend(oracle, out) ==
    /\ inflight' = inflight \ {Call("judge", problem.name)}
    /\ trace' = Append(trace, Event(IF oracle.kind = "raise" THEN "raise" ELSE "return",
                                    "judge", problem.name))
    /\ oracle_log' = Append(oracle_log, oracle)
    /\ IF out.raised
       THEN /\ pc' = "raised"
            /\ raised' = out.exc
            /\ UNCHANGED <<results, idx>>
       ELSE /\ pc' = "loop"
            /\ results' = <<out.value>> \o results
            /\ idx' = idx + 1
            /\ UNCHANGED raised

\* the oracle call has ended and evaluate_solution came out with out: its
\* result is appended and the loop moves on, or its exception goes up
AppendResult(oracle, out) ==
    /\ inflight' = inflight \ {Call("judge", problem.name)}
    /\ trace' = Append(trace, Event(IF oracle.kind = "raise" THEN "raise" ELSE "return",
                                    "judge", problem.name))
    /\ oracle_log' = Append(oracle_log, oracle)
    /\ IF out.raised
       THEN /\ pc' = "raised"
            /\ raised' = out.exc
            /\ UNCHANGED <<results, idx>>
       ELSE /\ pc' = "loop"
            /\ results' = Append(results, out.value)
            /\ idx' = idx + 1
            /\ UNCHANGED raised

\* the oracle call ends (by returning or raising)
FinishJudge(oracle) ==
    AppendResult(oracle, evaluate_solution(problem, agent_solution, agent_name, oracle))

JudgeReturns ==
    /\ pc = "judge"
    /\ \E oracle \in BatchOutcomes : FinishJudge(oracle)
    /\ UNCHANGED <<entries, agent_name, problem, agent_solution, returned, clock, files,
                   report_log>>

\* the listing is exhausted: evaluate_all_problems returns and evaluate()
\* writes the report
Finish ==
    /\ pc = "loop"
    /\ idx > Len(entries)
    /\ returned' = <<results>>
    /\ generate_report(results)
    /\ pc' = "done"
    /\ UNCHANGED <<entries, agent_name, idx, problem, agent_solution, results, raised,
                   inflight, trace, oracle_log, clock>>

Next ==
    \/ SkipEntry
    \/ LoadFails
    \/ CallAgent
    \/ AgentReturns
    \/ AgentRaises
    \/ JudgeReturns
    \/ Finish

Spec == Init /\ [][Next]_vars

(* -------------- evaluate_solution over the oracle's outcomes ----------- *)
\* one judge call in flight for one fixture; the oracle may do anything
InitJudge ==
    /\ entries = <<[is_dir |-> TRUE, has_problem_md |-> TRUE, has_solution_md |-> TRUE]>>
    /\ agent_name \in AgentNames
    /\ pc = "judge"
    /\ idx = 1
    /\ problem = Problem_load(entries, 1).value
    /\ agent_solution \in AgentSolutions(1)
    /\ results = <<>>
    /\ returned = <<>>
    /\ raised = ""
    /\ inflight = {Call("judge", 1)}
    /\ trace = <<Event("start", "agent", 1), Event("return", "agent", 1),
                 Event("start", "judge", 1)>>
    /\ oracle_log = <<>>
    /\ clock = 0
    /\ files = <<>>
    /\ report_log = <<>>

JudgeReturnsAny ==
    /\ pc = "judge"
    /\ \E oracle \in JudgeOutcomes : FinishJudge(oracle)
    /\ UNCHANGED <<entries, agent_name, problem, agent_solution, returned, clock, files,
                   report_log>>

NextJudge == JudgeReturnsAny

SpecJudge == InitJudge /\ [][NextJudge]_vars

(* ----------------------- repeated report generation -------------------- *)
SampleProblem == Problem_load(<<[is_dir |-> TRUE, has_problem_md |-> TRUE,
                                 has_solution_md |-> TRUE]>>, 1).value
SampleResult(name) ==
    evaluate_solution(SampleProblem, PyStr(<<Ch("fix")>>), name,
                      Response(<<PyStr(<<LB>> \o GoodBody \o <<RB>>)>>)).value
ReportInputs ==
    {<<>>} \cup {<<SampleResult(n)>> : n \in AgentNames}
    \cup {<<SampleResult(n), SampleResult(n)>> : n \in AgentNames}

InitReports ==
    /\ entries = <<>>
    /\ agent_name \in AgentNames
    /\ pc = "reports"
    /\ idx = 1
    /\ problem = NoProblem
    /\ agent_solution = PyNone
    /\ results = <<>>
    /\ returned = <<>>
    /\ raised = ""
    /\ inflight = {}
    /\ trace = <<>>
    /\ oracle_log = <<>>
    /\ clock = 0
    /\ files = <<>>
    /\ report_log = <<>>

Tick ==
    /\ pc = "reports"
    /\ clock < MaxClock
    /\ clock' = clock + 1
    /\ UNCHANGED <<entries, agent_name, pc, idx, problem, agent_solution, results,
                   returned, raised, inflight, trace, oracle_log, files, report_log>>

GenerateReport ==
    /\ pc = "reports"
    /\ Len(report_log) < MaxReports
    /\ \E rs \in ReportInputs : generate_report(rs)
    /\ UNCHANGED <<entries, agent_name, pc, idx, problem, agent_solution, results,
                   returned, raised, inflight, trace, oracle_log, clock>>

NextReports == Tick \/ GenerateReport

SpecReports == InitReports /\ [][NextReports]_vars

(* =============================== claims ================================ *)
\* results[j] is what evaluate_solution returned for the oracle outcome
\* oracle_log[j]
Judged == 1..Len(oracle_log)
HasResult(j) == j <= Len(results)
IsTextReply(o) == o.kind = "response" /\ Len(o.choices) > 0 /\ o.choices[1].t = "str"
ReplyText(o) == o.choices[1].s

\* the span from the first '{' to the last '}' of a reply, read off the text
OpenAt(txt) == {i \in 1..Len(txt) : txt[i] = LB}
CloseAt(txt) == {i \in 1..Len(txt) : txt[i] = RB}
Least(S) == CHOOSE i \in S : \A j \in S : i <= j
Greatest(S) == CHOOSE i \in S : \A j \in S : j <= i
HasSpan(txt) == OpenAt(txt) # {} /\ CloseAt(txt) # {} /\ Least(OpenAt(txt)) < Greatest(CloseAt(txt))
SpanOf(txt) == SubSeq(txt, Least(OpenAt(txt)), Greatest(CloseAt(txt)))
IsObject(txt) == HasSpan(txt) /\ ~json_loads(SpanOf(txt)).raised
ObjectOf(txt) == json_loads(SpanOf(txt)).value

AllScores(r, n) ==
    /\ r.diagnosis_accuracy = n
    /\ r.solution_correctness = n
    /\ r.investigation_quality = n
    /\ r.overall_score = n

StartsWith(v, marker) == v.t = "str" /\ Len(v.s) >= 1 /\ v.s[1] = Ch(marker)

\* C1 (as claimed): in every result produced, overall_score equals
\* floor(0.4*diagnosis_accuracy + 0.4*solution_correctness +
\* 0.2*investigation_quality) of the sub-scores stored in that result.
C1_OverallIsFloorOfStored ==
    \A j \in 1..Len(results) :
        results[j].overall_score =
            (4 * results[j].diagnosis_accuracy + 4 * results[j].solution_correctness
             + 2 * results[j].investigation_quality) \div 10

\* C2: evaluate_solution never raises: whatever the oracle did, every judge
\* call that ended left exactly one result and no exception escaped.
C2_NeverRaises ==
    /\ Len(results) = Len(oracle_log)
    /\ raised \notin ExceptionSubclasses
    /\ pc # "raised"

C2_Witness ==
    /\ Len(results) = 1
    /\ oracle_log =
         <<Response(<<PyStr(<<LB, Member("diagnosis_accuracy", PyStr(<<Ch("high")>>)), RB>>)>>)>>

\* C3: when the oracle call raises, the result has all four scores 0, empty
\* reasoning, an error-describing feedback, and still carries the agent's
\* text and the problem's reference solution.
C3_TransportFailure ==
    \A j \in Judged :
        oracle_log[j] = APIRaise =>
            /\ HasResult(j)
            /\ AllScores(results[j], 0)
            /\ results[j].judge_reasoning = PyStr(<<>>)
            /\ StartsWith(results[j].judge_feedback, "Error during evaluation: ")
            /\ results[j].agent_solution \in AgentSolutions(results[j].problem_name)
            /\ results[j].expected_solution =
                   PyStr(<<Ch("solution.md of "), NameTok(results[j].problem_name)>>)

C3_Witness ==
    /\ Len(results) = 1
    /\ oracle_log = <<APIRaise>>
    /\ results[1].overall_score = 0

\* C4: a text reply with no span from the first '{' to the last '}', or
\* whose span is not an object, yields all four scores 50, a parse-error
\* feedback and the full raw reply as reasoning.
C4_ParseFailure ==
    \A j \in Judged :
        (IsTextReply(oracle_log[j]) /\ ~IsObject(ReplyText(oracle_log[j]))) =>
            /\ HasResult(j)
            /\ AllScores(results[j], 50)
            /\ StartsWith(results[j].judge_feedback, "Failed to parse judge response: ")
            /\ results[j].judge_reasoning = oracle_log[j].choices[1]

\* '}' before '{'
C4_Witness ==
    /\ Len(results) = 1
    /\ oracle_log = <<Response(<<PyStr(<<RB, LB>>)>>)>>
    /\ results[1].overall_score = 50

WellFormed(txt) ==
    /\ IsObject(txt)
    /\ \A k \in {"diagnosis_accuracy", "solution_correctness", "investigation_quality"} :
           k \in DOMAIN ObjectOf(txt) /\ ObjectOf(txt)[k].t = "int"
    /\ \A k \in {"reasoning", "feedback"} :
           k \in DOMAIN ObjectOf(txt) /\ ObjectOf(txt)[k].t = "str"

RECURSIVE FixtureNames(_, _)
FixtureNames(listing, upto) ==
    IF upto = 0 THEN <<>>
    ELSE IF listing[upto].is_dir /\ listing[upto].has_problem_md
         THEN Append(FixtureNames(listing, upto - 1), upto)
         ELSE FixtureNames(listing, upto - 1)

NamesOf(rs) == [j \in 1..Len(rs) |-> rs[j].problem_name]

\* C6: the batch yields one result per entry that is a directory holding
\* problem.md, in listing order, and none for the others; an oracle failure
\* never ends the batch.
C6_OneResultPerFixture ==
    /\ returned # <<>> => NamesOf(returned[1]) = FixtureNames(entries, Len(entries))
    /\ pc = "loop" => NamesOf(results) = FixtureNames(entries, idx - 1)
    /\ raised \in {"", "AgentError", "FileNotFoundError"}

\* three entries, the middle one without problem.md; the oracle call fails on
\* the first fixture and the reply does not parse on the last
C6_Witness ==
    /\ returned # <<>>
    /\ Len(entries) = 3
    /\ ~entries[2].has_problem_md
    /\ NamesOf(returned[1]) = <<1, 3>>
    /\ oracle_log[1] = APIRaise
    /\ returned[1][2].overall_score = 50

\* C7: once the agent raises on a fixture, the judge is never called for it,
\* no later call is made, no result sequence is returned and no report is
\* written.
C7_AgentErrorAborts ==
    \A n \in 1..Len(trace) :
        (trace[n].ev = "raise" /\ trace[n].kind = "agent") =>
            /\ n = Len(trace)
            /\ \A m \in 1..Len(trace) :
                   ~(trace[m].kind = "judge" /\ trace[m].name = trace[n].name)
            /\ inflight = {}
            /\ returned = <<>>
            /\ DOMAIN files = {}
            /\ report_log = <<>>
            /\ pc = "raised"
            /\ raised = "AgentError"

\* the agent raises on the second fixture, after the first was judged
C7_Witness ==
    /\ raised = "AgentError"
    /\ Len(results) = 1
    /\ idx < Len(entries)
    /\ IsFixture(entries[Len(entries)])

\* C8 (as claimed): in every result produced, the three sub-scores and the
\* overall score are integers in 0..100.
C8_ScoresInRange ==
    \A j \in 1..Len(results) :
        /\ results[j].diagnosis_accuracy \in 0..100
        /\ results[j].solution_correctness \in 0..100
        /\ results[j].investigation_quality \in 0..100
        /\ results[j].overall_score \in 0..100

\* C9 (as claimed): any two generate_report calls return different paths and
\* the report of the earlier call is still in its file.
C9_NeverCollides ==
    \A i \in 1..Len(report_log) : \A j \in 1..Len(report_log) :
        i < j =>
            /\ report_log[i].path # report_log[j].path
            /\ files[report_log[i].path] = report_log[i].content

LastCallFor(p) ==
    Greatest({i \in 1..Len(report_log) : report_log[i].path = p})

\* C9 (amended): two generate_report calls return the same path exactly when
\* they embed the same agent name and fall in the same clock second; a file
\* always holds the report of the last call that returned its path, so a
\* report is never replaced by a call for another agent or another second.
C9_CollidesOnlyWithinAgentAndSecond ==
    /\ \A i \in 1..Len(report_log) : \A j \in 1..Len(report_log) :
           (report_log[i].path = report_log[j].path) <=>
               (report_log[i].agent = report_log[j].agent
                /\ report_log[i].second = report_log[j].second)
    /\ DOMAIN files = {report_log[i].path : i \in 1..Len(report_log)}
    /\ \A p \in DOMAIN files : files[p] = report_log[LastCallFor(p)].content

\* the same agent reports in two different seconds: both files are kept
C9_Witness ==
    \E i \in 1..Len(report_log) : \E j \in 1..Len(report_log) :
        /\ i < j
        /\ report_log[i].agent = report_log[j].agent
        /\ report_log[i].second # report_log[j].second
        /\ report_log[i].path # report_log[j].path
        /\ files[report_log[i].path] = report_log[i].content
        /\ files[report_log[j].path] = report_log[j].content

Starts(kind, name) ==
    {n \in 1..Len(trace) : trace[n] = Event("start", kind, name)}

Ended(n) == trace[n].ev \in {"return", "raise"}

Open(n) ==
    /\ trace[n].ev = "start"
    /\ \A m \in (n + 1)..Len(trace) :
           ~(Ended(m) /\ trace[m].kind = trace[n].kind /\ trace[m].name = trace[n].name)

\* the state part of C10: what the call history and the calls in flight
\* look like at any time
C10_Sequential ==
    /\ Cardinality(inflight) <= 1
    /\ inflight = {Call(trace[n].kind, trace[n].name) : n \in {m \in 1..Len(trace) : Open(m)}}
    /\ \A n \in 1..Len(trace) :
           /\ (trace[n].ev = "start" /\ n > 1) => Ended(n - 1)
           /\ (trace[n].ev = "start" /\ trace[n].kind = "judge") =>
                  n > 1 /\ trace[n - 1] = Event("return", "agent", trace[n].name)
           /\ (trace[n].ev = "start" /\ trace[n].kind = "agent" /\ n > 1) =>
                  /\ trace[n - 1].kind = "judge"
                  /\ trace[n - 1].name < trace[n].name
           /\ Ended(n) =>
                  n > 1 /\ trace[n - 1] = Event("start", trace[n].kind, trace[n].name)
    /\ \A k \in 1..Len(entries) :
           /\ Cardinality(Starts("agent", k)) <= 1
           /\ Cardinality(Starts("judge", k)) <= 1
    /\ \A j \in 1..Len(results) :
           /\ Cardinality(Starts("agent", results[j].problem_name)) = 1
           /\ Cardinality(Starts("judge", results[j].problem_name)) = 1

\* the step part of C10: results is left alone or gets one new last element
AppendOnly ==
    \/ results' = results
    \/ /\ Len(results') = Len(results) + 1
       /\ SubSeq(results', 1, Len(results)) = results

\* C10: external calls are strictly sequential: at most one call in flight;
\* a call starts only when the previous one has ended; a judge call starts
\* right after the same fixture's agent call returned; the next fixture's
\* agent call starts only after the current fixture's judge call ended; each
\* fixture gets at most one agent and one judge call, and exactly one of
\* each once it has a result; the result sequence only grows by appending.
C10_StrictlySequential == [] C10_Sequential /\ [][AppendOnly]_vars

\* two fixtures judged one after the other
C10_Witness ==
    /\ Len(results) = 2
    /\ Len(trace) = 8
    /\ inflight = {}

====
